---- MODULE Spec2Model ----
(***************************************************************************)
(* A model of leakMapper (src/src/viz_classes/leak_mapper.py): the object  *)
(* that loads the measurements table, attaches point geometry and builds   *)
(* the two-layer popup map.                                                *)
(*                                                                         *)
(* A float is a record [k, v]: k = "num" with the value v, k = "nan", or   *)
(* k = "inf" with the sign v.  An optional attribute (df, gdf, map, the    *)
(* output file) is None or a record.  Columns whose values no operation    *)
(* branches on (methane_level, type_of_infrastructure) are left out of the *)
(* rows; the timestamp column is represented by its dtype.                 *)
(***************************************************************************)
EXTENDS Integers, Sequences, FiniteSets, TLC

\* ------------------------------------------------------------------ bounds
MaxRows == 2
MaxPhotos == 2

\* ------------------------------------------------------------------ floats
NaN == [k |-> "nan", v |-> 0]
Inf == [k |-> "inf", v |-> 1]
NegInf == [k |-> "inf", v |-> -1]
Num(n) == [k |-> "num", v |-> n]

isnan(c) == c.k = "nan"

\* a < b on non-NaN floats
FloatLess(a, b) ==
    IF a.k = "inf" THEN a.v = -1 /\ b # a
    ELSE IF b.k = "inf" THEN b.v = 1
    ELSE a.v < b.v

NonNaN(s) == {i \in 1..Len(s) : ~isnan(s[i])}

\* pandas Series.min() / max(): NaN entries are skipped, NaN when none is left
SeriesMin(s) ==
    IF NonNaN(s) = {} THEN NaN
    ELSE s[CHOOSE i \in NonNaN(s) : \A j \in NonNaN(s) : ~FloatLess(s[j], s[i])]

SeriesMax(s) ==
    IF NonNaN(s) = {} THEN NaN
    ELSE s[CHOOSE i \in NonNaN(s) : \A j \in NonNaN(s) : ~FloatLess(s[i], s[j])]

RECURSIVE SumNum(_, _)
SumNum(s, I) ==
    IF I = {} THEN 0
    ELSE LET i == CHOOSE j \in I : TRUE IN s[i].v + SumNum(s, I \ {i})

\* pandas Series.mean(): NaN entries are skipped; the result is the exact
\* quotient [num / den], NaN for no entries or for +inf and -inf together
SeriesMean(s) ==
    LET I == NonNaN(s)
        pos == \E i \in I : s[i] = Inf
        neg == \E i \in I : s[i] = NegInf
    IN  IF I = {} \/ (pos /\ neg) THEN [k |-> "nan", num |-> 0, den |-> 1]
        ELSE IF pos THEN [k |-> "inf", num |-> 1, den |-> 1]
        ELSE IF neg THEN [k |-> "inf", num |-> -1, den |-> 1]
        ELSE [k |-> "num", num |-> SumNum(s, I), den |-> Cardinality(I)]

\* ------------------------------------------------------------------ base64
Alphabet ==
    << "A", "B", "C", "D", "E", "F", "G", "H", "I", "J", "K", "L", "M",
       "N", "O", "P", "Q", "R", "S", "T", "U", "V", "W", "X", "Y", "Z",
       "a", "b", "c", "d", "e", "f", "g", "h", "i", "j", "k", "l", "m",
       "n", "o", "p", "q", "r", "s", "t", "u", "v", "w", "x", "y", "z",
       "0", "1", "2", "3", "4", "5", "6", "7", "8", "9", "+", "/" >>

Pad == "="

Sextet(n) == Alphabet[(n % 64) + 1]

\* base64.b64encode on a sequence of bytes: a sequence of characters
RECURSIVE b64encode(_)
b64encode(b) ==
    IF Len(b) = 0 THEN << >>
    ELSE IF Len(b) = 1 THEN
        LET n == b[1] * 65536
        IN << Sextet(n \div 262144), Sextet(n \div 4096), Pad, Pad >>
    ELSE IF Len(b) = 2 THEN
        LET n == b[1] * 65536 + b[2] * 256
        IN << Sextet(n \div 262144), Sextet(n \div 4096), Sextet(n \div 64), Pad >>
    ELSE
        LET n == b[1] * 65536 + b[2] * 256 + b[3]
        IN << Sextet(n \div 262144), Sextet(n \div 4096), Sextet(n \div 64), Sextet(n) >>
           \o b64encode(SubSeq(b, 4, Len(b)))

\* ------------------------------------------------------------------ tables
None == [none |-> TRUE]

DatetimeDtype == "datetime64[ns]"
ObjectDtype == "object"

\* pd.api.types.is_datetime64_any_dtype
is_datetime64_any_dtype(dtype) == dtype = DatetimeDtype

\* dtypes of the measurements table as pd.read_sql_table returns it; the
\* timestamp column is datetime64 or, for a column stored as text, object
MeasurementDtypes(ts) ==
    [photo_id |-> "int64", longitude |-> "float64", latitude |-> "float64",
     methane_level |-> "float64", timestamp |-> ts,
     type_of_infrastructure |-> ObjectDtype, leak |-> "bool"]

MeasurementRows(ids, lons, lats, leaks) ==
    [photo_id : ids, longitude : lons, latitude : lats, leak : leaks]

SeqsUpTo(S, n) == UNION {[1..m -> S] : m \in 0..n}

MeasurementTables(rowSet, tsSet) ==
    {[rows |-> r, dtypes |-> MeasurementDtypes(ts)] :
        r \in SeqsUpTo(rowSet, MaxRows), ts \in tsSet}

\* stored JPEG payloads of 4, 2 and 3 bytes (base64 padding of 2, 1 and 0)
Blobs == {<<255, 216, 255, 224>>, <<255, 217>>, <<77, 97, 110>>}

PhotoRows(ids) == [photo_id : ids, photo : Blobs]

PhotoTables(ids) == SeqsUpTo(PhotoRows(ids), MaxPhotos)

\* ------------------------------------------------------------------ state
VARIABLES
    db,             \* the measurements table held by the database
    imgdf,          \* self.imgdf: the photos table, read at construction
    df,             \* self.df
    gdf,            \* self.gdf
    map,            \* self.map
    layer_nonzero,  \* plot_popups: markers of the 'Non Zero' feature group
    layer_zero,     \* plot_popups: markers of the 'Zeros' feature group
    idx,            \* plot_popups: position of the row loop
    file,           \* the content of the output file map_name
    pc,             \* position inside plot_popups, "idle" outside it
    exec,           \* position inside execute, "none" outside it
    lastCall,       \* the last method that returned, and how
    nsaves,         \* history: writes of the output file by the current run
    lastProj,       \* history: df read and gdf built by the last set_gdf
    skipped         \* history: some stage returned early on an unset input

vars == << db, imgdf, df, gdf, map, layer_nonzero, layer_zero, idx, file,
           pc, exec, lastCall, nsaves, lastProj, skipped >>

Outcome(op, how) == [op |-> op, outcome |-> how]

\* leakMapper.__init__ on a database holding table t and photos p
InitWith(tables, photos) ==
    /\ db \in tables
    /\ imgdf \in photos
    /\ df = None
    /\ gdf = None
    /\ map = None
    /\ layer_nonzero = << >>
    /\ layer_zero = << >>
    /\ idx = 0
    /\ file = None
    /\ pc = "idle"
    /\ exec = "none"
    /\ lastCall = Outcome("__init__", "ok")
    /\ nsaves = 0
    /\ lastProj = None
    /\ skipped = FALSE

\* ------------------------------------------------------------------ set_df
\* pd.read_sql_table either returns the table or raises; the except clause
\* prints and re-raises, so df is assigned only on success
set_df(ok) ==
    /\ pc = "idle"
    /\ IF ok
       THEN /\ df' = db
            /\ lastCall' = Outcome("set_df", "ok")
       ELSE /\ UNCHANGED df
            /\ lastCall' = Outcome("set_df", "raised")
    /\ UNCHANGED << db, imgdf, gdf, map, layer_nonzero, layer_zero, idx, file,
                    pc, nsaves, lastProj, skipped >>

\* ------------------------------------------------------------------ set_gdf
\* gpd.points_from_xy(df['longitude'], df['latitude'])
points_from_xy(rows) ==
    [i \in 1..Len(rows) |-> [x |-> rows[i].longitude, y |-> rows[i].latitude]]

\* variant: GeoDataFrame(..., crs="EPSG:4326")
GeoDataFrame_with_crs(frame) ==
    [rows |-> frame.rows,
     dtypes |-> [c \in DOMAIN frame.dtypes \cup {"geometry"} |->
                    IF c = "geometry" THEN "geometry" ELSE frame.dtypes[c]],
     geometry |-> points_from_xy(frame.rows),
     crs |-> "EPSG:4326"]

\* variant: a frame built before is kept
GeoDataFrame_cached(frame) ==
    IF gdf # None THEN gdf
    ELSE [rows |-> frame.rows,
          dtypes |-> [c \in DOMAIN frame.dtypes \cup {"geometry"} |->
                         IF c = "geometry" THEN "geometry" ELSE frame.dtypes[c]],
          geometry |-> points_from_xy(frame.rows),
          crs |-> "None"]

\* gpd.GeoDataFrame(df, geometry=...): a copy of df with a geometry column;
\* no crs argument is passed, so the frame has no CRS
GeoDataFrame(frame) ==
    [rows |-> frame.rows,
     dtypes |-> [c \in DOMAIN frame.dtypes \cup {"geometry"} |->
                    IF c = "geometry" THEN "geometry" ELSE frame.dtypes[c]],
     geometry |-> points_from_xy(frame.rows),
     crs |-> "None"]

set_gdf ==
    /\ pc = "idle"
    /\ IF df = None
       THEN /\ lastCall' = Outcome("set_gdf", "skipped")
            /\ skipped' = TRUE
            /\ UNCHANGED << gdf, lastProj >>
       ELSE /\ gdf' = GeoDataFrame(df)
            /\ lastCall' = Outcome("set_gdf", "ok")
            /\ lastProj' = [df |-> df, gdf |-> gdf']
            /\ UNCHANGED skipped
    /\ UNCHANGED << db, imgdf, df, map, layer_nonzero, layer_zero, idx, file,
                    pc, nsaves >>

\* ---------------------------------------------------------------- get_image
NoImage == [tag |-> "p", text |-> "No image available"]

ImageTag(data) ==
    [tag |-> "img", mime |-> "image/jpeg", encoding |-> "base64",
     data |-> data, width |-> 150, height |-> 100]

\* imgdf[imgdf['photo_id'] == photo_id]['photo'].values: the photos of the
\* matching rows, in table order
MatchingPhotos(photo_id) ==
    LET hit == SelectSeq(imgdf, LAMBDA r : r.photo_id = photo_id)
    IN [i \in 1..Len(hit) |-> hit[i].photo]

\* an exception that leaves a call
Raised(e) == [raised |-> e]
IsRaised(v) == "raised" \in DOMAIN v

\* variant: values[-1], the last matching row
get_image_last(photo_id) ==
    LET values == MatchingPhotos(photo_id)
    IN  IF Len(values) = 0 THEN NoImage
        ELSE ImageTag(b64encode(values[Len(values)]))

\* variant: no handler for the IndexError
get_image_unhandled(photo_id) ==
    LET values == MatchingPhotos(photo_id)
    IN  IF Len(values) = 0 THEN Raised("IndexError")
        ELSE ImageTag(b64encode(values[1]))

\* values[0] raises IndexError when nothing matches; the handler returns the
\* placeholder
get_image(photo_id) ==
    LET values == MatchingPhotos(photo_id)
    IN  IF Len(values) = 0 THEN NoImage
        ELSE ImageTag(b64encode(values[1]))

\* -------------------------------------------------------------- plot_popups
InExecute == exec \in {"set_gdf", "plot_popups"}

\* a return of plot_popups, to its caller or through execute
PlotReturn(how) ==
    /\ pc' = "idle"
    /\ lastCall' = Outcome("plot_popups", how)
    /\ exec' = IF exec = "plot_popups"
               THEN (IF how = "raised" THEN "raised" ELSE "done")
               ELSE exec

\* variant: no precondition, the first use of the unset gdf raises
plot_popups_unguarded ==
    /\ pc = "idle"
    /\ IF gdf = None
       THEN /\ PlotReturn("raised")
            /\ UNCHANGED << nsaves, skipped >>
       ELSE /\ pc' = "set_crs"
            /\ nsaves' = 0
            /\ UNCHANGED << exec, lastCall, skipped >>
    /\ UNCHANGED << db, imgdf, df, gdf, map, layer_nonzero, layer_zero, idx,
                    file, lastProj >>

\* lines 133-135: the precondition
plot_popups ==
    /\ pc = "idle"
    /\ IF gdf = None
       THEN /\ PlotReturn("skipped")
            /\ skipped' = TRUE
            /\ UNCHANGED nsaves
       ELSE /\ pc' = "set_crs"
            /\ nsaves' = 0
            /\ UNCHANGED << exec, lastCall, skipped >>
    /\ UNCHANGED << db, imgdf, df, gdf, map, layer_nonzero, layer_zero, idx,
                    file, lastProj >>

\* line 138: gdf.set_crs(epsg=4326, inplace=True)
plot_set_crs ==
    /\ pc = "set_crs"
    /\ gdf' = [gdf EXCEPT !.crs = "EPSG:4326"]
    /\ pc' = "datetime"
    /\ UNCHANGED << db, imgdf, df, map, layer_nonzero, layer_zero, idx, file,
                    exec, lastCall, nsaves, lastProj, skipped >>

\* gdf[col].astype(str) on every datetime column
StringifyDatetimes(dtypes) ==
    [c \in DOMAIN dtypes |->
        IF is_datetime64_any_dtype(dtypes[c]) THEN ObjectDtype ELSE dtypes[c]]

\* lines 141-143
plot_datetime ==
    /\ pc = "datetime"
    /\ gdf' = [gdf EXCEPT !.dtypes = StringifyDatetimes(@)]
    /\ pc' = "map"
    /\ UNCHANGED << db, imgdf, df, map, layer_nonzero, layer_zero, idx, file,
                    exec, lastCall, nsaves, lastProj, skipped >>

GeometryX(g) == [i \in 1..Len(g.geometry) |-> g.geometry[i].x]
GeometryY(g) == [i \in 1..Len(g.geometry) |-> g.geometry[i].y]

\* line 148
Center(g) == << SeriesMean(GeometryY(g)), SeriesMean(GeometryX(g)) >>

\* folium's validate_location: a NaN coordinate raises ValueError
ValidLocation(loc) == loc[1].k # "nan" /\ loc[2].k # "nan"

\* lines 148-152: folium.Map(location=center, ...) is assigned to self.map
\* unless the constructor raises
plot_map ==
    /\ pc = "map"
    /\ IF ValidLocation(Center(gdf))
       THEN /\ map' = [location |-> Center(gdf), zoom_start |-> 13,
                       bounds |-> None, children |-> << >>]
            /\ pc' = "fit_bounds"
            /\ UNCHANGED << exec, lastCall >>
       ELSE /\ PlotReturn("raised")
            /\ UNCHANGED map
    /\ UNCHANGED << db, imgdf, df, gdf, layer_nonzero, layer_zero, idx, file,
                    nsaves, lastProj, skipped >>

\* lines 155-157
Bounds(g) ==
    << << SeriesMin(GeometryY(g)), SeriesMin(GeometryX(g)) >>,
       << SeriesMax(GeometryY(g)), SeriesMax(GeometryX(g)) >> >>

\* line 160
plot_fit_bounds ==
    /\ pc = "fit_bounds"
    /\ map' = [map EXCEPT !.bounds = Bounds(gdf)]
    /\ pc' = "layers"
    /\ UNCHANGED << db, imgdf, df, gdf, layer_nonzero, layer_zero, idx, file,
                    exec, lastCall, nsaves, lastProj, skipped >>

\* lines 164-165, and the start of the loop of line 167
plot_layers ==
    /\ pc = "layers"
    /\ layer_nonzero' = << >>
    /\ layer_zero' = << >>
    /\ idx' = 1
    /\ pc' = "rows"
    /\ UNCHANGED << db, imgdf, df, gdf, map, file, exec, lastCall, nsaves,
                    lastProj, skipped >>

\* line 169: np.isnan(np.array(location)).any()
AnyNaN(location) == isnan(location[1]) \/ isnan(location[2])

\* lines 173-181: the popup of a row; the timestamp is rendered from the
\* column as it is typed at that moment
Popup(g, row) ==
    [timestamp |-> g.dtypes["timestamp"], image_html |-> get_image(row.photo_id)]

Marker(g, i) ==
    LET row == g.rows[i]
    IN [row |-> i, location |-> << row.latitude, row.longitude >>,
        popup |-> Popup(g, row)]

\* variant: the branches of line 185 exchanged
LayerOf_inverted(row) == IF row.leak THEN "Zeros" ELSE "Non Zero"

\* line 185: the feature group a row's marker is added to
LayerOf(row) == IF row.leak THEN "Non Zero" ELSE "Zeros"

\* lines 167-190: one iteration of the loop; an exception of get_image
\* would leave plot_popups
plot_row ==
    /\ pc = "rows"
    /\ idx <= Len(gdf.rows)
    /\ LET row == gdf.rows[idx]
           location == << row.latitude, row.longitude >>
       IN  IF AnyNaN(location)
           THEN /\ idx' = idx + 1
                /\ UNCHANGED << layer_nonzero, layer_zero, pc, exec, lastCall >>
           ELSE IF IsRaised(get_image(row.photo_id))
           THEN /\ PlotReturn("raised")
                /\ UNCHANGED << layer_nonzero, layer_zero, idx >>
           ELSE /\ IF LayerOf(row) = "Non Zero"
                   THEN /\ layer_nonzero' = Append(layer_nonzero, Marker(gdf, idx))
                        /\ UNCHANGED layer_zero
                   ELSE /\ layer_zero' = Append(layer_zero, Marker(gdf, idx))
                        /\ UNCHANGED layer_nonzero
                /\ idx' = idx + 1
                /\ UNCHANGED << pc, exec, lastCall >>
    /\ UNCHANGED << db, imgdf, df, gdf, map, file, nsaves, lastProj, skipped >>

\* variant: line 193 inside the loop body
plot_add_nonzero_early ==
    /\ pc = "rows"
    /\ map' = [map EXCEPT !.children = Append(@, "Non Zero")]
    /\ pc' = "add_zero"
    /\ UNCHANGED << db, imgdf, df, gdf, layer_nonzero, layer_zero, idx, file,
                    exec, lastCall, nsaves, lastProj, skipped >>

\* line 193, once the loop is exhausted
plot_add_nonzero ==
    /\ pc = "rows"
    /\ idx > Len(gdf.rows)
    /\ map' = [map EXCEPT !.children = Append(@, "Non Zero")]
    /\ pc' = "add_zero"
    /\ UNCHANGED << db, imgdf, df, gdf, layer_nonzero, layer_zero, idx, file,
                    exec, lastCall, nsaves, lastProj, skipped >>

\* line 194
plot_add_zero ==
    /\ pc = "add_zero"
    /\ map' = [map EXCEPT !.children = Append(@, "Zeros")]
    /\ pc' = "control"
    /\ UNCHANGED << db, imgdf, df, gdf, layer_nonzero, layer_zero, idx, file,
                    exec, lastCall, nsaves, lastProj, skipped >>

\* line 197
plot_control ==
    /\ pc = "control"
    /\ map' = [map EXCEPT !.children = Append(@, "LayerControl")]
    /\ pc' = "save"
    /\ UNCHANGED << db, imgdf, df, gdf, layer_nonzero, layer_zero, idx, file,
                    exec, lastCall, nsaves, lastProj, skipped >>

\* what map.save writes: the map and the markers of its feature groups
Rendered == [map |-> map, nonzero |-> layer_nonzero, zero |-> layer_zero]

\* lines 200-202, and the return
plot_save ==
    /\ pc = "save"
    /\ file' = Rendered
    /\ nsaves' = nsaves + 1
    /\ PlotReturn("ok")
    /\ UNCHANGED << db, imgdf, df, gdf, map, layer_nonzero, layer_zero, idx,
                    lastProj, skipped >>

plot_steps ==
    \/ plot_set_crs
    \/ plot_datetime
    \/ plot_map
    \/ plot_fit_bounds
    \/ plot_layers
    \/ plot_row
    \/ plot_add_nonzero
    \/ plot_add_zero
    \/ plot_control
    \/ plot_save

\* ------------------------------------------------------------------ execute
\* variant: execute goes on after a failed set_df
AfterSetDf_swallowing == "set_gdf"

\* an exception of set_df leaves execute at once
AfterSetDf == IF lastCall'.outcome = "raised" THEN "raised" ELSE "set_gdf"

\* line 207
execute_set_df ==
    /\ ~InExecute
    /\ \E ok \in BOOLEAN : set_df(ok)
    /\ exec' = AfterSetDf

\* line 208
execute_set_gdf ==
    /\ exec = "set_gdf"
    /\ set_gdf
    /\ exec' = "plot_popups"

\* line 209
execute_plot_popups ==
    /\ exec = "plot_popups"
    /\ plot_popups

\* main(): the mapper is constructed and executed once
main ==
    /\ lastCall.op = "__init__"
    /\ execute_set_df

\* ------------------------------------------------------- calls from outside
call_set_df ==
    /\ ~InExecute
    /\ \E ok \in BOOLEAN : set_df(ok)
    /\ UNCHANGED exec

call_set_gdf ==
    /\ ~InExecute
    /\ set_gdf
    /\ UNCHANGED exec

call_plot_popups ==
    /\ ~InExecute
    /\ plot_popups

\* ----------------------------------------------------------- specifications
Lons == {NaN, Num(0), Num(1)}
Lats == {NaN, Num(0), Num(1), Inf, NegInf}

\* any order of calls on a small database
Init ==
    InitWith(MeasurementTables(MeasurementRows({1}, {NaN, Num(0)}, {NaN, Num(0)}, BOOLEAN),
                               {DatetimeDtype, ObjectDtype}),
             {<< [photo_id |-> 1, photo |-> <<255, 217>>] >>})

Next ==
    \/ call_set_df
    \/ call_set_gdf
    \/ call_plot_popups
    \/ execute_set_df
    \/ execute_set_gdf
    \/ execute_plot_popups
    \/ plot_steps

Spec == Init /\ [][Next]_vars

NextMain ==
    \/ main
    \/ execute_set_gdf
    \/ execute_plot_popups
    \/ plot_steps

\* the program run on tables of any coordinates
InitPlace ==
    InitWith(MeasurementTables(MeasurementRows({1}, Lons, Lats, BOOLEAN), {DatetimeDtype}),
             {<< [photo_id |-> 1, photo |-> <<255, 217>>] >>})

SpecPlace == InitPlace /\ [][NextMain]_vars

\* the program run on photo tables of any content
InitImage ==
    InitWith(MeasurementTables(MeasurementRows({1, 2}, {NaN, Num(0)}, {Num(0)}, {TRUE}),
                               {DatetimeDtype}),
             PhotoTables({1, 2}))

SpecImage == InitImage /\ [][NextMain]_vars

\* ------------------------------------------------------------------- claims
Finished == pc = "idle" /\ lastCall = Outcome("plot_popups", "ok")

AfterLoopStart == pc \in {"rows", "add_zero", "control", "save"} \/ Finished

\* the loop of plot_popups has gone past row i of gdf
Passed(i) == (pc = "rows" => i < idx)

Markers == layer_nonzero \o layer_zero

CountIn(layer, i) == Cardinality({k \in 1..Len(layer) : layer[k].row = i})

isfinite(c) == c.k = "num"

FiniteRow(row) == isfinite(row.longitude) /\ isfinite(row.latitude)

\* C1: once the loop of plot_popups has gone past a row whose longitude and
\* latitude are both finite, and up to the return of the run, that row has
\* exactly one marker, in 'Non Zero' if its leak flag is true and in 'Zeros'
\* otherwise.
C1_OneMarkerPerFiniteRow ==
    AfterLoopStart =>
        \A i \in 1..Len(gdf.rows) :
            (Passed(i) /\ FiniteRow(gdf.rows[i])) =>
                /\ CountIn(layer_nonzero, i) + CountIn(layer_zero, i) = 1
                /\ CountIn(layer_nonzero, i) = 1 <=> gdf.rows[i].leak

C1_Witness ==
    /\ Finished
    /\ \E i, j \in 1..Len(gdf.rows) :
        /\ FiniteRow(gdf.rows[i]) /\ gdf.rows[i].leak
        /\ FiniteRow(gdf.rows[j]) /\ ~gdf.rows[j].leak
        /\ CountIn(layer_nonzero, i) = 1
        /\ CountIn(layer_zero, j) = 1

\* C2: no row with a non-finite longitude or latitude gets a marker (every
\* marker has two finite coordinates), and plot_popups does not raise on a
\* table of rows, whatever they hold.
C2_NonFiniteRowsSkippedWithoutFailure ==
    /\ \A k \in 1..Len(Markers) :
        isfinite(Markers[k].location[1]) /\ isfinite(Markers[k].location[2])
    /\ Len(db.rows) > 0 => lastCall # Outcome("plot_popups", "raised")

SextetValue(c) == (CHOOSE i \in 1..64 : Alphabet[i] = c) - 1

\* base64.b64decode, the inverse used to read a popup's image back
RECURSIVE b64decode(_)
b64decode(s) ==
    IF Len(s) < 4 THEN << >>
    ELSE
        LET a == SextetValue(s[1])
            b == SextetValue(s[2])
        IN  IF s[3] = Pad THEN
                << (a * 4 + b \div 16) % 256 >>
            ELSE IF s[4] = Pad THEN
                LET c == SextetValue(s[3])
                IN << (a * 4 + b \div 16) % 256, (b * 16 + c \div 4) % 256 >>
            ELSE
                LET c == SextetValue(s[3])
                    d == SextetValue(s[4])
                IN << (a * 4 + b \div 16) % 256, (b * 16 + c \div 4) % 256,
                      (c * 64 + d) % 256 >>
                   \o b64decode(SubSeq(s, 5, Len(s)))

FirstMatch(photo_id) ==
    LET K == {k \in 1..Len(imgdf) : imgdf[k].photo_id = photo_id}
    IN CHOOSE k \in K : \A j \in K : k <= j

HasPhoto(photo_id) == \E k \in 1..Len(imgdf) : imgdf[k].photo_id = photo_id

\* C3: the popup of every marker whose row's photo_id occurs in the photo
\* table holds an inline JPEG image tag whose base64 data decodes to the bytes
\* of the first photo row with that id.
C3_InlineImageIsFirstMatch ==
    \A k \in 1..Len(Markers) :
        LET photo_id == gdf.rows[Markers[k].row].photo_id
            image_html == Markers[k].popup.image_html
        IN  HasPhoto(photo_id) =>
                /\ image_html.tag = "img"
                /\ image_html.mime = "image/jpeg"
                /\ image_html.encoding = "base64"
                /\ b64decode(image_html.data) = imgdf[FirstMatch(photo_id)].photo

C3_Witness ==
    /\ Finished
    /\ \E k \in 1..Len(Markers) :
        \E a, b \in 1..Len(imgdf) :
            /\ a < b
            /\ imgdf[a].photo_id = gdf.rows[Markers[k].row].photo_id
            /\ imgdf[b].photo_id = imgdf[a].photo_id
            /\ imgdf[a].photo # imgdf[b].photo
            /\ Len(imgdf[a].photo) % 3 # 0

\* C4: a row without NaN coordinates whose photo_id is in no photo row gets
\* its marker, in the layer of its leak flag, with the placeholder 'No image
\* available' as image; plot_popups raises at no row, goes through all rows
\* and saves the map.
C4_MissingImagePlaceholder ==
    /\ AfterLoopStart =>
        \A i \in 1..Len(gdf.rows) :
            LET row == gdf.rows[i]
                mine == {k \in 1..Len(Markers) : Markers[k].row = i}
            IN  ( /\ Passed(i)
                  /\ ~AnyNaN(<< row.latitude, row.longitude >>)
                  /\ ~HasPhoto(row.photo_id) ) =>
                    /\ Cardinality(mine) = 1
                    /\ \A k \in mine : Markers[k].popup.image_html = NoImage
                    /\ CountIn(layer_nonzero, i) = 1 <=> row.leak
    /\ lastCall = Outcome("plot_popups", "raised") => idx = 0
    /\ Finished => (idx = Len(gdf.rows) + 1 /\ file = Rendered)

C4_Witness ==
    /\ Finished
    /\ Len(gdf.rows) = 2
    /\ Len(Markers) = 2
    /\ ~HasPhoto(gdf.rows[1].photo_id)
    /\ Markers[1].popup.image_html = NoImage
    /\ file = Rendered

MarkerLat == [k \in 1..Len(Markers) |-> Markers[k].location[1]]
MarkerLon == [k \in 1..Len(Markers) |-> Markers[k].location[2]]

\* C5: the bounds the map is fitted to are [[min_lat, min_lon], [max_lat,
\* max_lon]] over the points that received a marker.
C5_BoundsOverPlacedPoints ==
    Finished =>
        map.bounds = << << SeriesMin(MarkerLat), SeriesMin(MarkerLon) >>,
                        << SeriesMax(MarkerLat), SeriesMax(MarkerLon) >> >>

C9_ReadFailureIsFatal ==
    /\ lastCall = Outcome("set_df", "raised") =>
          /\ df = None /\ gdf = None /\ map = None /\ file = None
          /\ exec = "raised"
          /\ pc = "idle"
          /\ ~ENABLED (execute_set_gdf \/ execute_plot_popups \/ plot_steps)
    /\ lastCall = Outcome("set_df", "ok") => df = db
    /\ exec = "raised" => lastCall.outcome = "raised"
    /\ exec \in {"set_gdf", "plot_popups", "done"} => df # None

C9_Witness ==
    /\ lastCall = Outcome("set_df", "raised")
    /\ exec = "raised"
    /\ Len(db.rows) > 0

LayerOrder == << "Non Zero", "Zeros", "LayerControl" >>

NoDatetimeColumn(g) == \A c \in DOMAIN g.dtypes : ~is_datetime64_any_dtype(g.dtypes[c])

\* C10: in a run of plot_popups the datetime columns are strings before a
\* popup is rendered; no marker is added once a layer is attached; the map's
\* children are attached in the order 'Non Zero', 'Zeros', LayerControl; the
\* file is written once, with all three attached, and nothing of the map
\* changes afterwards.
C10_StepOrder ==
    /\ [](\A k \in 1..Len(Markers) : ~is_datetime64_any_dtype(Markers[k].popup.timestamp))
    /\ [](AfterLoopStart => NoDatetimeColumn(gdf))
    /\ []((map # None /\ pc # "idle") =>
             /\ map.children = SubSeq(LayerOrder, 1, Len(map.children))
             /\ map.children # << >> => idx = Len(gdf.rows) + 1
             /\ Len(map.children) = 3 <=> pc = "save")
    /\ [](nsaves <= 1)
    /\ [](file # None => (nsaves = 1 /\ file = Rendered /\ file.map.children = LayerOrder))
    /\ [][ (map # None /\ map.children # << >>) =>
              UNCHANGED << layer_nonzero, layer_zero >> ]_vars
    /\ [][ file # None => UNCHANGED << map, layer_nonzero, layer_zero, file >> ]_vars

C10_Witness ==
    /\ Finished
    /\ file = Rendered
    /\ Len(layer_nonzero) = 1
    /\ Len(layer_zero) = 1
    /\ db.dtypes["timestamp"] = DatetimeDtype

====
